---- MODULE Spec2Model ----
(***************************************************************************)
(* Model of custom_components/climate/xiaomi_miio.py: the climate entity   *)
(* XiaomiAirConditioningCompanion, its poll (async_update), its on/off     *)
(* commands, its four setters with the configuration push, and the        *)
(* temperature-sensor callback (Spec, SpecSensor); the set-up of the       *)
(* platform (SpecSetup); the raw command (SpecRaw); and the setters in     *)
(* front of a device whose state is followed (SpecDevice, SpecSerialized). *)
(*                                                                         *)
(* Python values: None is the empty tuple and a value v that may be None   *)
(* is the one-element tuple <<v>>, so that a field can hold None, a bool,  *)
(* a number or a name and still be compared.  A Python string that the     *)
(* code parses (the sensor's state) is a tuple of one-character strings.   *)
(* A float is the exact fraction <<numerator, denominator>> in lowest      *)
(* terms (binary rounding is not modelled).                                *)
(*                                                                         *)
(* Every coroutine is cut at its one suspension point, the                 *)
(* `yield from self.hass.async_add_job(...)` of the device call: one       *)
(* action runs the code up to the call, one action per outcome of the call *)
(* runs the rest.  The poll and a command are separate tasks of the event  *)
(* loop and may interleave at these points.                                *)
(***************************************************************************)
EXTENDS Integers, Sequences, FiniteSets, TLC

VARIABLES
    self,    \* the entity's fields (XiaomiAirConditioningCompanion.__init__)
    units,   \* hass.config.units.temperature_unit, fixed by the host's configuration
    upd,     \* the async_update task: where it stands, how its last run ended
    cmd,     \* the command task (turn_on/turn_off/setter): where it stands, how it ended
    sens,    \* the last sensor state handled and how handling it ended
    platform,\* async_setup_platform: where the set-up stands, the entities it added
    dev,     \* the air conditioning companion behind self._device, where it is followed
    hist     \* history of completed device interactions (observation only)

vars == <<self, units, upd, cmd, sens, platform, dev, hist>>

\* ---------------------------------------------------------------- values

None == <<>>
Some(v) == <<v>>

\* Bound of the model: how many model identifiers, besides the empty one, a
\* status may report.
NumModels == 1

\* SUCCESS = ['ok']
SUCCESS == <<"ok">>

\* What the device may answer to a command (anything but SUCCESS is a refusal).
Responses == {<<"ok">>, <<"error">>}

ModelNames == <<"010500978022222102", "010507950000257301", "0180111111", "0180222222">>

\* Model identifiers a status may report: a string, possibly the empty string.
Models == {""} \cup {ModelNames[i] : i \in 1..NumModels}

\* Names of miio.airconditioningcompanion.OperationMode / FanSpeed / SwingMode.
OperationModes == {"Heat", "Cool"}
FanSpeeds == {"Low", "High"}
SwingModes == {"On", "Off"}
Temps == {22, 23}

TEMP_CELSIUS == "C"
TEMP_FAHRENHEIT == "F"

\* The status object returned by self._device.status().
Status(on, m, t, f, s, am, lp, led) ==
    [is_on |-> on, mode |-> m, target_temperature |-> t, fan_speed |-> f,
     swing_mode |-> s, air_condition_model |-> am, load_power |-> lp, led |-> led]

\* What a status call may report: the device is also operated from outside
\* (its own remote control, the vendor's application), so any of these may
\* come at any poll.
DeviceStates ==
    { Status(TRUE, "Cool", 22, "Low", "On", m, 2, "1") : m \in Models }
    \cup { Status(FALSE, "Heat", 23, "High", "Off", ModelNames[1], 0, "0") }

\* ---------------------------------------------------------------- the entity

\* Mutant of InitSelf: the model identifier starts as the empty string.
InitSelfWithModel(ct) ==
    [ available |-> FALSE,
      state |-> None,
      state_attrs |-> [ ac_model |-> None, load_power |-> None, temperature |-> None,
                        swing_mode |-> None, fan_speed |-> None,
                        operation_mode |-> None, led |-> None ],
      current_temperature |-> ct,
      current_swing_mode |-> None,
      current_operation |-> None,
      current_fan_mode |-> None,
      air_condition_model |-> Some(""),
      target_temperature |-> None ]

\* __init__: every cached field starts as None and the entity as unavailable;
\* ct is the current temperature left by the eager read of the sensor.
InitSelf(ct) ==
    [ available |-> FALSE,
      state |-> None,
      state_attrs |-> [ ac_model |-> None, load_power |-> None, temperature |-> None,
                        swing_mode |-> None, fan_speed |-> None,
                        operation_mode |-> None, led |-> None ],
      current_temperature |-> ct,
      current_swing_mode |-> None,
      current_operation |-> None,
      current_fan_mode |-> None,
      air_condition_model |-> None,
      target_temperature |-> None ]

\* Mutant of CacheStatus: the swing mode is not written with the rest.
CacheStatusWithoutSwing(s, st) ==
    [ s EXCEPT
        !.available = TRUE,
        !.state = Some(st.is_on),
        !.state_attrs = [ ac_model |-> Some(st.air_condition_model),
                          load_power |-> Some(st.load_power),
                          temperature |-> Some(st.target_temperature),
                          swing_mode |-> Some(st.swing_mode),
                          fan_speed |-> Some(st.fan_speed),
                          operation_mode |-> Some(st.mode),
                          led |-> Some(st.led) ],
        !.current_operation = Some(st.mode),
        !.target_temperature = Some(st.target_temperature),
        !.current_fan_mode = Some(st.fan_speed) ]

\* async_update, the writes of the try body after the status call returned
\* `st`, up to the latch.
CacheStatus(s, st) ==
    [ s EXCEPT
        !.available = TRUE,
        !.state = Some(st.is_on),
        !.state_attrs = [ ac_model |-> Some(st.air_condition_model),
                          load_power |-> Some(st.load_power),
                          temperature |-> Some(st.target_temperature),
                          swing_mode |-> Some(st.swing_mode),
                          fan_speed |-> Some(st.fan_speed),
                          operation_mode |-> Some(st.mode),
                          led |-> Some(st.led) ],
        !.current_operation = Some(st.mode),
        !.target_temperature = Some(st.target_temperature),
        !.current_fan_mode = Some(st.fan_speed),
        !.current_swing_mode = Some(st.swing_mode) ]

\* Mutant of LatchModel: every successful poll overwrites the model.
LatchModelAlways(s, st) ==
    [s EXCEPT !.air_condition_model = Some(st.air_condition_model)]

\* async_update: `if self._air_condition_model is None: ...`
LatchModel(s, st) ==
    IF s.air_condition_model = None
    THEN [s EXCEPT !.air_condition_model = Some(st.air_condition_model)]
    ELSE s

\* async_update, the try body after the status call returned `st`.
UpdateOk(s, st) == LatchModel(CacheStatus(s, st), st)

\* Mutant of UpdateFailed: the failure also forgets the on/off flag.
UpdateFailedClears(s) == [s EXCEPT !.available = FALSE, !.state = None]

\* Mutant of UpdateFailed: the failure is logged, availability is kept.
UpdateFailedKeeps(s) == s

\* Mutant of UpdateFailed: the failure also forgets the sensor's reading.
UpdateFailedForgetsTemperature(s) ==
    [s EXCEPT !.available = FALSE, !.current_temperature = None]

\* async_update, the except branch: the status call raised DeviceException.
UpdateFailed(s) == [s EXCEPT !.available = FALSE]

\* Mutant of TryCommandResult: any non-empty answer counts as success.
TryCommandResultTruthy(result) == result # <<>>

\* _try_command, the value returned when the call returned `result`.
TryCommandResult(result) == result = SUCCESS

\* Mutant of TryCommandExcept: the exception is logged, availability is kept.
TryCommandExceptKeeps(s) == s

\* _try_command, the except branch (the caller then gets False).
TryCommandExcept(s) == [s EXCEPT !.available = FALSE]

\* Mutant of TryCommandFailed: after a first failure the call is made once more.
TryCommandFailedRetries(c) ==
    IF c.calls < 2
    THEN [c EXCEPT !.calls = c.calls + 1, !.errors = c.errors + 1]
    ELSE [c EXCEPT !.pc = "idle", !.args = None, !.outcome = "exc",
                   !.errors = c.errors + 1]

\* _try_command, the except branch, for the command task c: the error is
\* logged and the coroutine returns; no further call is made.
TryCommandFailed(c) ==
    [c EXCEPT !.pc = "idle", !.args = None, !.outcome = "exc",
              !.errors = c.errors + 1]

\* What the device calls raise on a transport failure.
DeviceExceptions == {"DeviceException"}

\* `except DeviceException` of _try_command and of async_update: whether the
\* exception is caught there rather than leaving the coroutine.
TryCommandCatches(exc) == exc = "DeviceException"

UpdateCatches(exc) == exc = "DeviceException"

\* Mutant of TurnOnDone: a successful turn_on also marks the entity available.
TurnOnDoneAvailable(s, result) ==
    IF result THEN [s EXCEPT !.state = Some(TRUE), !.available = TRUE] ELSE s

\* async_turn_on after _try_command returned `result`.
TurnOnDone(s, result) == IF result THEN [s EXCEPT !.state = Some(TRUE)] ELSE s

\* Mutant of TurnOffDone: the flag is cleared whatever the result.
TurnOffDoneAlways(s, result) == [s EXCEPT !.state = Some(FALSE)]

\* async_turn_off after _try_command returned `result`.
TurnOffDone(s, result) == IF result THEN [s EXCEPT !.state = Some(FALSE)] ELSE s

\* The setters' local writes; a keyword argument left out is None.
SetTemperature(s, temperature, operation_mode) ==
    [ s EXCEPT
        !.target_temperature =
            IF temperature # None THEN temperature ELSE s.target_temperature,
        !.current_operation =
            IF operation_mode # None THEN operation_mode ELSE s.current_operation ]

SetSwingMode(s, swing_mode) == [s EXCEPT !.current_swing_mode = Some(swing_mode)]

\* Mutant of SetFanMode: the attributes map follows the local fan mode.
SetFanModeAndAttribute(s, fan) ==
    [s EXCEPT !.current_fan_mode = Some(fan), !.state_attrs.fan_speed = Some(fan)]

SetFanMode(s, fan) == [s EXCEPT !.current_fan_mode = Some(fan)]

SetOperationMode(s, operation_mode) ==
    [s EXCEPT !.current_operation = Some(operation_mode)]

\* Mutant of ModelKnown: the guard is missing.
ModelKnownAlways(s) == TRUE

\* _send_configuration: the guard on the latched model.
ModelKnown(s) == s.air_condition_model # None

\* Mutant of ConfigurationArgs: the target temperature pushed is the one of
\* the attributes map (the last one the device reported).
ConfigurationArgsReported(s) ==
    IF \/ s.state = None
       \/ s.current_operation = None
       \/ s.current_fan_mode = None
       \/ s.current_swing_mode = None
    THEN None
    ELSE Some([ model |-> s.air_condition_model,
                power |-> s.state[1],
                operation_mode |-> s.current_operation[1],
                target_temperature |-> s.state_attrs.temperature,
                fan_speed |-> s.current_fan_mode[1],
                swing_mode |-> s.current_swing_mode[1],
                led |-> "0" ])

\* _send_configuration: the arguments handed to device.send_configuration.
\* Power(int(None)) and an enum lookup of None raise; the argument list then
\* does not exist (None here).
ConfigurationArgs(s) ==
    IF \/ s.state = None
       \/ s.current_operation = None
       \/ s.current_fan_mode = None
       \/ s.current_swing_mode = None
    THEN None
    ELSE Some([ model |-> s.air_condition_model,
                power |-> s.state[1],
                operation_mode |-> s.current_operation[1],
                target_temperature |-> s.target_temperature,
                fan_speed |-> s.current_fan_mode[1],
                swing_mode |-> s.current_swing_mode[1],
                led |-> "0" ])

\* ---------------------------------------------------------------- the sensor

DigitChars == {"0", "1", "2", "3", "4", "5", "6", "7", "8", "9"}

DigitVal(c) ==
    CASE c = "0" -> 0 [] c = "1" -> 1 [] c = "2" -> 2 [] c = "3" -> 3 [] c = "4" -> 4
      [] c = "5" -> 5 [] c = "6" -> 6 [] c = "7" -> 7 [] c = "8" -> 8 [] c = "9" -> 9

IsDigit(c) == c \in DigitChars

IsPoint(c) == c = "."

RECURSIVE DigitsValue(_)
DigitsValue(q) ==
    IF q = <<>> THEN 0
    ELSE 10 * DigitsValue(SubSeq(q, 1, Len(q) - 1)) + DigitVal(q[Len(q)])

RECURSIVE Pow10(_)
Pow10(k) == IF k = 0 THEN 1 ELSE 10 * Pow10(k - 1)

Abs(n) == IF n < 0 THEN -n ELSE n

RECURSIVE Gcd(_, _)
Gcd(a, b) == IF b = 0 THEN a ELSE Gcd(b, a % b)

\* A fraction in lowest terms with a positive denominator.
Norm(n, d) ==
    LET g == Gcd(Abs(n), d) IN <<n \div g, d \div g>>

\* float(text) for a text of digits, '.', '+' and '-' (no exponent, no
\* whitespace, no "inf"/"nan"): the fraction, or None for ValueError.
Float(text) ==
    LET signed == Len(text) > 0 /\ text[1] \in {"+", "-"}
        body == IF signed THEN Tail(text) ELSE text
        digits == SelectSeq(body, IsDigit)
        points == SelectSeq(body, IsPoint)
        pos == CHOOSE i \in 1..Len(body) : body[i] = "."
        frac == IF points = <<>> THEN 0 ELSE Len(body) - pos
        n == DigitsValue(digits)
    IN  IF \/ Len(digits) = 0
           \/ Len(points) > 1
           \/ Len(digits) + Len(points) # Len(body)
        THEN None
        ELSE Some(Norm(IF signed /\ text[1] = "-" THEN -n ELSE n, Pow10(frac)))

\* hass.config.units.temperature(value, from_unit): the value in the host's
\* unit, for a from_unit that is a temperature unit.
UnitsTemperature(value, from_unit, to_unit) ==
    IF from_unit = to_unit THEN Some(value)
    ELSE IF from_unit = TEMP_CELSIUS
         THEN Some(Norm(9 * value[1] + 160 * value[2], 5 * value[2]))
         ELSE Some(Norm(5 * (value[1] - 32 * value[2]), 9 * value[2]))

UNKNOWN == <<"u", "n", "k", "n", "o", "w", "n">>

\* How _async_update_temp ends: "ignored" (the early return), "stored", or
\* "error" (ValueError caught and logged).
UpdateTempOutcome(state, to_unit) ==
    IF state.state = None \/ state.state = Some(UNKNOWN) THEN "ignored"
    ELSE IF Float(state.state[1]) = None THEN "error"
    ELSE "stored"

\* Mutant of UpdateTemp: a state that is not stored clears the cached reading.
UpdateTempClears(s, state, to_unit) ==
    IF UpdateTempOutcome(state, to_unit) = "stored"
    THEN [s EXCEPT !.current_temperature =
              UnitsTemperature(Float(state.state[1])[1], state.unit, to_unit)]
    ELSE [s EXCEPT !.current_temperature = None]

\* _async_update_temp
UpdateTemp(s, state, to_unit) ==
    IF UpdateTempOutcome(state, to_unit) = "stored"
    THEN [s EXCEPT !.current_temperature =
              UnitsTemperature(Float(state.state[1])[1], state.unit, to_unit)]
    ELSE s

\* _async_sensor_changed; new_state is None or Some(state object)
SensorChangedOutcome(new_state, to_unit) ==
    IF new_state = None THEN "ignored" ELSE UpdateTempOutcome(new_state[1], to_unit)

SensorChanged(s, new_state, to_unit) ==
    IF new_state = None THEN s ELSE UpdateTemp(s, new_state[1], to_unit)

SensorState(text, unit) == [state |-> text, unit |-> unit]

Chars215 == <<"2", "1", ".", "5">>

TemperatureUnits == {TEMP_CELSIUS, TEMP_FAHRENHEIT}

\* The sensor state notified in the full specification.
SensorStates == { SensorState(Some(Chars215), TEMP_CELSIUS) }

\* The sensor texts notified in the sensor's own specification.
SensorTexts ==
    { None, Some(UNKNOWN), Some(Chars215), Some(<<"a", "b", "c">>), Some(<<>>),
      Some(<<".">>), Some(<<"-">>), Some(<<"2", ".", "1", ".", "5">>),
      Some(<<"2", "1", "a">>), Some(<<"1", "-", "2">>),
      Some(<<"7", "0">>), Some(<<"-", "3">>), Some(<<"+", "4", ".">>),
      Some(<<".", "5">>), Some(<<"0", "3", "2">>), Some(<<"-", "0", ".", "2", "5">>),
      Some(<<"1", "0", "0">>) }

\* ---------------------------------------------------------------- tasks

\* A poll task at rest whose last run made `calls` device calls.
IdleUpd(outcome, calls) == [pc |-> "idle", outcome |-> outcome, calls |-> calls]

\* A command task that made `calls` device calls and logged `errors` errors.
Cmd(op, pc, outcome, calls, errors, args) ==
    [op |-> op, pc |-> pc, outcome |-> outcome, calls |-> calls,
     errors |-> errors, args |-> args, result |-> None]

\* _send_configuration up to its device call, for the entity s: the push is
\* issued, skipped with one logged error, or the argument list raised.
SendConfiguration(op, s) ==
    IF ModelKnown(s)
    THEN IF ConfigurationArgs(s) = None
         THEN Cmd(op, "idle", "raised", 0, 0, None)
         ELSE Cmd(op, "call", "none", 1, 0, ConfigurationArgs(s))
    ELSE Cmd(op, "idle", "skipped", 0, 1, None)

Setters == {"set_temperature", "set_swing_mode", "set_fan_mode", "set_operation_mode"}

\* ---------------------------------------------------------------- set-up

\* device.info(): the fields of the handshake's answer that the set-up reads.
DeviceInfo(model, mac_address) == [model |-> model, mac_address |-> mac_address]

InfoModels == {"lumi.acpartner.v1", "lumi.acpartner.v2"}
MacAddresses == {"28:6C:07:00:00:01", "28:6C:07:00:00:02"}

\* How `device = AirConditioningCompanion(host, token); device.info()` may
\* end: with the device's info, or with DeviceException (unreachable host, bad
\* token).
Handshakes ==
    { [exc |-> Some(e), info |-> None] : e \in DeviceExceptions }
    \cup { [exc |-> None, info |-> Some(DeviceInfo(m, a))] :
             m \in InfoModels, a \in MacAddresses }

\* `except DeviceException` of async_setup_platform
SetupCatches(exc) == exc = "DeviceException"

\* "{}-{}".format(model, device_info.mac_address), as its parts
UniqueId(info) == <<info.model, "-", info.mac_address>>

\* The platform before async_setup_platform ran.
NoPlatform ==
    [pc |-> "setup", handshake |-> None, raised |-> None, errors |-> 0,
     entities |-> <<>>]

\* Mutant of SetupPlatform: a failed handshake is logged and the entity is
\* added all the same.
SetupPlatformAddsAnyway(handshake) ==
    [pc |-> "added", handshake |-> Some(handshake), raised |-> None,
     errors |-> IF handshake.exc # None THEN 1 ELSE 0,
     entities |-> << [unique_id |-> IF handshake.info = None THEN None
                                    ELSE Some(UniqueId(handshake.info[1])),
                      update_before_add |-> TRUE] >>]

\* async_setup_platform for a handshake that ended as `handshake`: the
\* exception is logged and PlatformNotReady raised, or the entity is handed to
\* async_add_devices.
SetupPlatform(handshake) ==
    IF handshake.exc # None
    THEN IF SetupCatches(handshake.exc[1])
         THEN [pc |-> "not_ready", handshake |-> Some(handshake),
               raised |-> Some("PlatformNotReady"), errors |-> 1, entities |-> <<>>]
         ELSE [pc |-> "failed", handshake |-> Some(handshake),
               raised |-> handshake.exc, errors |-> 0, entities |-> <<>>]
    ELSE [pc |-> "added", handshake |-> Some(handshake), raised |-> None,
          errors |-> 0,
          entities |-> << [unique_id |-> Some(UniqueId(handshake.info[1])),
                           update_before_add |-> TRUE] >>]

\* The platform of an entity that was set up.
AddedPlatform ==
    SetupPlatform([exc |-> None,
                   info |-> Some(DeviceInfo("lumi.acpartner.v2", "28:6C:07:00:00:01"))])

\* ---------------------------------------------------------------- the device

\* The device is not followed: it is also operated from outside, and a status
\* call may report any of DeviceStates.
NoDevice == [state |-> None, snap |-> None]

\* ---------------------------------------------------------------- initial state

InitHist ==
    [polled |-> FALSE, first_model |-> None, last_task |-> "none", last_ok |-> FALSE,
     exc_since |-> FALSE, acked |-> None]

\* __init__ for the host's unit `u`, with the sensor state found by the eager
\* read (None when the sensor has no state yet).
InitWith(u, sensor_state) ==
    /\ units = u
    /\ self = SensorChanged(InitSelf(None), sensor_state, u)
    /\ sens = [new_state |-> sensor_state,
               outcome |-> IF sensor_state = None THEN "none"
                           ELSE SensorChangedOutcome(sensor_state, u)]
    /\ upd = IdleUpd("none", 0)
    /\ cmd = Cmd("none", "idle", "none", 0, 0, None)
    /\ platform = AddedPlatform
    /\ dev = NoDevice
    /\ hist = InitHist

\* A metric host whose sensor has no state yet.
Init == InitWith(TEMP_CELSIUS, None)

\* Any host unit, any sensor state at start-up.
InitSensor ==
    \E u \in TemperatureUnits :
        \E sensor_state \in {None} \cup
              {Some(SensorState(x, y)) : x \in SensorTexts, y \in TemperatureUnits} :
            InitWith(u, sensor_state)

\* ---------------------------------------------------------------- the poll

\* async_update up to `yield from self.hass.async_add_job(self._device.status)`
AsyncUpdateCall ==
    /\ upd.pc = "idle"
    /\ upd' = [upd EXCEPT !.pc = "status", !.calls = 1]
    /\ UNCHANGED <<self, units, platform, dev, cmd, sens, hist>>

\* the status call returned
AsyncUpdateReturn ==
    \E state \in DeviceStates :
        /\ upd.pc = "status"
        /\ self' = UpdateOk(self, state)
        /\ upd' = IdleUpd("ok", upd.calls)
        /\ hist' = [hist EXCEPT
                      !.polled = TRUE,
                      !.first_model = IF hist.polled THEN hist.first_model
                                      ELSE Some(state.air_condition_model),
                      !.last_task = "upd",
                      !.last_ok = TRUE,
                      !.exc_since = FALSE]
        /\ UNCHANGED <<units, platform, dev, cmd, sens>>

\* the status call raised DeviceException
AsyncUpdateRaise ==
    \E exc \in DeviceExceptions :
        /\ upd.pc = "status"
        /\ self' = IF UpdateCatches(exc) THEN UpdateFailed(self) ELSE self
        /\ upd' = IdleUpd(IF UpdateCatches(exc) THEN "exc" ELSE "raised", upd.calls)
        /\ hist' = [hist EXCEPT !.last_task = "upd", !.last_ok = FALSE,
                                !.exc_since = FALSE]
        /\ UNCHANGED <<units, platform, dev, cmd, sens>>

\* ---------------------------------------------------------------- on / off

\* Mutant of OnOffDone: a setter whose push failed puts the last reported
\* values back.
OnOffDoneRollsBack(op, s, result) ==
    IF op = "turn_on" THEN TurnOnDone(s, result)
    ELSE IF op = "turn_off" THEN TurnOffDone(s, result)
    ELSE IF result THEN s
    ELSE [s EXCEPT !.current_operation = s.state_attrs.operation_mode,
                   !.target_temperature = s.state_attrs.temperature,
                   !.current_fan_mode = s.state_attrs.fan_speed,
                   !.current_swing_mode = s.state_attrs.swing_mode]

\* What the caller of _try_command does with the result: turn_on and
\* turn_off set the on/off flag, _send_configuration does nothing.
OnOffDone(op, s, result) ==
    IF op = "turn_on" THEN TurnOnDone(s, result)
    ELSE IF op = "turn_off" THEN TurnOffDone(s, result)
    ELSE s

\* async_turn_on / async_turn_off up to the device call in _try_command
OnOffCall(op) ==
    /\ cmd.pc = "idle"
    /\ cmd' = Cmd(op, "call", "none", 1, 0, None)
    /\ UNCHANGED <<self, units, platform, dev, upd, sens, hist>>

AsyncTurnOnCall == OnOffCall("turn_on")

AsyncTurnOffCall == OnOffCall("turn_off")

\* ---------------------------------------------------------------- setters

SetterCall(op, s) ==
    /\ cmd.pc = "idle"
    /\ self' = s
    /\ cmd' = SendConfiguration(op, s)
    /\ UNCHANGED <<units, platform, dev, upd, sens, hist>>

AsyncSetTemperature ==
    \E temperature \in {None} \cup {Some(x) : x \in Temps},
       operation_mode \in {None} \cup {Some(m) : m \in OperationModes} :
        SetterCall("set_temperature", SetTemperature(self, temperature, operation_mode))

AsyncSetSwingMode ==
    \E swing_mode \in SwingModes :
        SetterCall("set_swing_mode", SetSwingMode(self, swing_mode))

AsyncSetFanMode ==
    \E fan \in FanSpeeds : SetterCall("set_fan_mode", SetFanMode(self, fan))

AsyncSetOperationMode ==
    \E operation_mode \in OperationModes :
        SetterCall("set_operation_mode", SetOperationMode(self, operation_mode))

\* ---------------------------------------------------------------- _try_command

\* the device call of the command in flight returned `result`
TryCommandReturn ==
    \E result \in Responses :
        /\ cmd.pc = "call"
        /\ self' = OnOffDone(cmd.op, self, TryCommandResult(result))
        /\ cmd' = [cmd EXCEPT !.pc = "idle", !.args = None, !.result = Some(result),
                     !.outcome = IF TryCommandResult(result) THEN "ok" ELSE "nack"]
        /\ hist' = [hist EXCEPT !.last_task = "cmd", !.last_ok = (result = SUCCESS)]
        /\ UNCHANGED <<units, platform, dev, upd, sens>>

\* the device call raised DeviceException
TryCommandRaise ==
    \E exc \in DeviceExceptions :
        /\ cmd.pc = "call"
        /\ self' = IF TryCommandCatches(exc)
                   THEN OnOffDone(cmd.op, TryCommandExcept(self), FALSE)
                   ELSE self
        /\ cmd' = IF TryCommandCatches(exc)
                  THEN TryCommandFailed(cmd)
                  ELSE [cmd EXCEPT !.pc = "idle", !.args = None, !.outcome = "raised"]
        /\ hist' = [hist EXCEPT !.last_task = "cmd", !.last_ok = FALSE,
                                !.exc_since = TRUE]
        /\ UNCHANGED <<units, platform, dev, upd, sens>>

\* ---------------------------------------------------------------- sensor

\* _async_sensor_changed
AsyncSensorChanged ==
    \E new_state \in {Some(st) : st \in SensorStates} :
        /\ self' = SensorChanged(self, new_state, units)
        /\ sens' = [new_state |-> new_state,
                    outcome |-> SensorChangedOutcome(new_state, units)]
        /\ UNCHANGED <<units, platform, dev, upd, cmd, hist>>

Next ==
    \/ AsyncUpdateCall
    \/ AsyncUpdateReturn
    \/ AsyncUpdateRaise
    \/ AsyncTurnOnCall
    \/ AsyncTurnOffCall
    \/ AsyncSetTemperature
    \/ AsyncSetSwingMode
    \/ AsyncSetFanMode
    \/ AsyncSetOperationMode
    \/ TryCommandReturn
    \/ TryCommandRaise
    \/ AsyncSensorChanged

Spec == Init /\ [][Next]_vars

\* The sensor listener alone: every text and unit, on either host unit.
SensorNotification ==
    \E new_state \in {None} \cup
          {Some(SensorState(x, y)) : x \in SensorTexts, y \in TemperatureUnits} :
        /\ self' = SensorChanged(self, new_state, units)
        /\ sens' = [new_state |-> new_state,
                    outcome |-> SensorChangedOutcome(new_state, units)]
        /\ UNCHANGED <<units, platform, dev, upd, cmd, hist>>

NextSensor == SensorNotification

SpecSensor == InitSensor /\ [][NextSensor]_vars

\* ---------------------------------------------------------------- steps, as seen in the state

\* The fields a poll caches.
CachedFields(s) ==
    <<s.state, s.current_operation, s.current_fan_mode, s.current_swing_mode,
      s.target_temperature, s.state_attrs, s.air_condition_model>>

\* A poll ends in this step, by an exception / by a status.
PollFailedStep == upd.pc = "status" /\ upd'.pc = "idle" /\ upd'.outcome # "ok"

PollOkStep == upd.pc = "status" /\ upd'.pc = "idle" /\ upd'.outcome = "ok"

\* The device call of a command ends in this step.
CommandEndStep == cmd.pc = "call" /\ cmd'.pc = "idle"

\* A setter runs in this step (up to its push, if it makes one).
SetterStep ==
    /\ cmd.pc = "idle"
    /\ cmd'.op \in Setters
    /\ UNCHANGED <<upd, sens, hist>>
    /\ <<self, cmd>>' # <<self, cmd>>

\* ---------------------------------------------------------------- claims

\* C1: a failed poll leaves availability false and every cached field (on/off
\* flag, operation mode, fan speed, swing mode, target temperature, attributes
\* map, latched model) as it was.
C1_FailedPollKeepsCache ==
    [][PollFailedStep =>
          /\ self'.available = FALSE
          /\ CachedFields(self') = CachedFields(self)
          /\ upd'.outcome = "exc"]_vars

\* C1 witness: a poll has just failed on an entity whose cache was filled by an
\* earlier successful poll.
C1_Witness ==
    /\ hist.last_task = "upd"
    /\ upd.outcome = "exc"
    /\ hist.polled
    /\ self.state # None
    /\ self.state_attrs.ac_model # None
    /\ ~self.available

\* C2: once a successful poll has completed, the model identifier is the one
\* that first successful poll reported, in every later state.
C2_ModelLatched ==
    /\ hist.polled => self.air_condition_model = hist.first_model
    /\ hist.polled => self.air_condition_model # None
    /\ ~hist.polled => self.air_condition_model = None

\* C2 witness: a later successful poll reported the empty model, and the latched
\* model is still the first one.
C2_Witness ==
    /\ hist.polled
    /\ self.state_attrs.ac_model = Some("")
    /\ self.air_condition_model = Some(ModelNames[1])

\* C3: a setter issues exactly one push when the model identifier is set as it
\* runs, and otherwise issues none and logs exactly one error.
C3_PushIffModelKnown ==
    [][SetterStep =>
          IF self.air_condition_model = None
          THEN cmd'.calls = 0 /\ cmd'.errors = 1 /\ cmd'.pc = "idle"
               /\ cmd'.outcome = "skipped"
          ELSE cmd'.calls = 1 /\ cmd'.errors = 0 /\ cmd'.pc = "call"
               /\ cmd'.args # None]_vars

\* C3 witness: a setter ran with the model unset; no push, one logged error.
C3_Witness ==
    /\ cmd.op \in Setters
    /\ cmd.outcome = "skipped"
    /\ cmd.calls = 0
    /\ cmd.errors = 1
    /\ self.air_condition_model = None
    /\ self.current_fan_mode # None

\* C4: turn_on / turn_off write the on/off flag (true / false) exactly when the
\* device acknowledged with the success token; otherwise the flag is kept.
C4_OnOffOnlyOnSuccess ==
    [][(CommandEndStep /\ cmd.op \in {"turn_on", "turn_off"}) =>
          self'.state = IF cmd'.result = Some(SUCCESS)
                        THEN Some(cmd.op = "turn_on")
                        ELSE self.state]_vars

\* C4 witness: turn_on succeeded (no poll ever wrote the flag), then turn_off hit
\* a transport failure: the flag is still true.
C4_Witness ==
    /\ ~hist.polled
    /\ cmd.op = "turn_off"
    /\ cmd.outcome = "exc"
    /\ self.state = Some(TRUE)

\* C5 as stated: after any command that returns failure (transport exception or
\* an acknowledgment other than the success token) and after any failed poll,
\* availability is false.
C5_AnyFailureMakesUnavailable ==
    [][((CommandEndStep /\ cmd'.outcome # "ok") \/ PollFailedStep) =>
          self'.available = FALSE]_vars

\* C5 amended: a failed poll, and a command whose device call raises a transport
\* exception, leave availability false; a command refused by an acknowledgment
\* other than the success token leaves availability as it was.
C5_ExceptionMakesUnavailable ==
    [][/\ (CommandEndStep /\ cmd'.outcome = "exc") => self'.available = FALSE
       /\ PollFailedStep => self'.available = FALSE
       /\ (CommandEndStep /\ cmd'.outcome = "nack") =>
             self'.available = self.available]_vars

\* C5 witness: a command raised a transport exception on an entity a poll had
\* made available; it is unavailable now.
C5_Witness ==
    /\ hist.last_task = "cmd"
    /\ cmd.outcome = "exc"
    /\ upd.outcome = "ok"
    /\ ~self.available

\* C6: the entity starts unavailable, and the only step that turns availability
\* from false to true is the successful end of a poll.
C6_OnlyPollMakesAvailable ==
    /\ self.available = FALSE
    /\ [][(self.available = FALSE /\ self'.available = TRUE) => PollOkStep]_vars

\* C6 witness: a command has just been acknowledged with the success token and
\* the entity is still unavailable.
C6_Witness ==
    /\ hist.last_task = "cmd"
    /\ cmd.outcome = "ok"
    /\ ~self.available

\* C7 as stated: with no device call in flight, availability is true exactly
\* when the most recently completed device interaction succeeded.
C7_AvailableIffLastSucceeded ==
    (upd.pc = "idle" /\ cmd.pc = "idle" /\ hist.last_task # "none") =>
        (self.available <=> hist.last_ok)

\* C7 amended: availability is true exactly when the most recently completed
\* poll succeeded and no command has raised a transport exception since.
C7_AvailableIffPolledAndNoException ==
    self.available <=> (upd.outcome = "ok" /\ ~hist.exc_since)

\* C7 witness: nothing in flight, the last interaction (a command) was refused,
\* and the entity is available because the last poll succeeded.
C7_Witness ==
    /\ upd.pc = "idle"
    /\ cmd.pc = "idle"
    /\ hist.last_task = "cmd"
    /\ ~hist.last_ok
    /\ cmd.outcome = "nack"
    /\ self.available

\* ---- C8, the sensor

\* What each numeric text of SensorTexts denotes, as a fraction.
NumericTexts ==
    { <<Chars215, <<43, 2>> >>,
      << <<"7", "0">>, <<70, 1>> >>,
      << <<"-", "3">>, <<-3, 1>> >>,
      << <<"+", "4", ".">>, <<4, 1>> >>,
      << <<".", "5">>, <<1, 2>> >>,
      << <<"0", "3", "2">>, <<32, 1>> >>,
      << <<"-", "0", ".", "2", "5">>, <<-1, 4>> >>,
      << <<"1", "0", "0">>, <<100, 1>> >> }

IsNumericText(x) == \E p \in NumericTexts : p[1] = x

ValueOfText(x) == (CHOOSE p \in NumericTexts : p[1] = x)[2]

\* v is the fraction p, given in from_unit, expressed in to_unit
\* (F = C * 9/5 + 32), compared by cross-multiplication.
IsConverted(v, p, from_unit, to_unit) ==
    IF from_unit = to_unit THEN v[1] * p[2] = p[1] * v[2]
    ELSE IF from_unit = TEMP_CELSIUS
         THEN 5 * p[2] * v[1] = (9 * p[1] + 160 * p[2]) * v[2]
         ELSE 9 * p[2] * v[1] = 5 * (p[1] - 32 * p[2]) * v[2]

\* The current temperature `after` is what handling `new_state` makes of `before`.
SensorEffect(new_state, before, after, outcome) ==
    IF new_state = None \/ new_state[1].state = None
       \/ new_state[1].state = Some(UNKNOWN)
    THEN after = before /\ outcome = "ignored"
    ELSE IF IsNumericText(new_state[1].state[1])
    THEN /\ after # None
         /\ IsConverted(after[1], ValueOfText(new_state[1].state[1]),
                        new_state[1].unit, units)
         /\ outcome = "stored"
    ELSE after = before /\ outcome = "error"

\* C8: an absent or "unknown" sensor state leaves the current temperature as it
\* was; a numeric one sets it to the value in the host's unit ("21.5" in that
\* unit gives 21.5); a non-numeric one is logged and leaves it as it was.  The
\* same holds of the eager read at start-up, which starts from None.
C8_SensorUpdate ==
    /\ sens.outcome # "none" =>
          SensorEffect(sens.new_state, None, self.current_temperature, sens.outcome)
    /\ [][(sens' # sens \/ self' # self) =>
            SensorEffect(sens'.new_state, self.current_temperature,
                         self'.current_temperature, sens'.outcome)]_vars
    /\ [](sens.new_state = Some(SensorState(Some(Chars215), units))
            => self.current_temperature = Some(<<43, 2>>))

\* C8 witness: the non-numeric text "abc" was notified and the reading 21.5
\* cached before it is still there.
C8_Witness ==
    /\ sens.new_state # None
    /\ sens.new_state[1].state = Some(<<"a", "b", "c">>)
    /\ sens.outcome = "error"
    /\ self.current_temperature = Some(<<43, 2>>)

\* C9: a command is reported as succeeded exactly when the device answered with
\* the success token; any other answer and any transport exception is reported
\* as failure, and no transport exception leaves a command or the poll.
C9_SuccessOnlyOnToken ==
    /\ cmd.outcome = "ok" <=> cmd.result = Some(SUCCESS)
    /\ (cmd.result # None /\ cmd.result # Some(SUCCESS)) => cmd.outcome = "nack"
    /\ cmd.outcome # "raised"
    /\ upd.outcome # "raised"

\* C9 witness: the device answered a push with something other than the success
\* token, and the push is reported as failed.
C9_Witness ==
    /\ cmd.op \in Setters
    /\ cmd.result = Some(<<"error">>)
    /\ cmd.outcome = "nack"

\* C10: whenever a setter has issued a push, a successful poll has completed
\* before, and the model pushed is the one that poll latched.
C10_PushOnlyAfterPoll ==
    (cmd.op \in Setters /\ cmd.calls > 0) =>
        /\ hist.polled
        /\ self.air_condition_model = hist.first_model
        /\ cmd.args # None => cmd.args[1].model = hist.first_model

\* C10 witness: a push is in flight, after a successful poll.
C10_Witness ==
    /\ cmd.op \in Setters
    /\ cmd.pc = "call"
    /\ cmd.calls = 1
    /\ hist.polled

\* C11: at most one device call of the entity is outstanding: a status query
\* and a command's call (turn on, turn off, configuration push) are never in
\* flight together.
C11_NoOverlap == ~(upd.pc = "status" /\ cmd.pc = "call")

\* C11 witness: a configuration push is issued while the poll's status query is
\* outstanding.
C11_Witness ==
    /\ upd.pc = "status"
    /\ cmd.pc = "call"
    /\ cmd.op \in Setters
    /\ cmd.calls = 1
    /\ upd.calls = 1

\* The sensor listener ran in this step (and changed something).
SensorStep == sens' # sens \/ self'.current_temperature # self.current_temperature

\* Handling the sensor state new_state after the handler step that took the
\* entity s to t gives the entity of handling it before (whose current
\* temperature is ct), and the handler step left the reading alone.
SensorCommutes(new_state, s, t, ct) ==
    /\ SensorChanged(t, new_state, units) = [t EXCEPT !.current_temperature = ct]
    /\ t.current_temperature = s.current_temperature

\* The entity after each step that the poll and the command task can take next
\* from the present state, where the entity is s.
HandlerResults(s) ==
    (IF upd.pc = "status"
     THEN {UpdateOk(s, st) : st \in DeviceStates} \cup {UpdateFailed(s)}
     ELSE {})
    \cup
    (IF cmd.pc = "call"
     THEN {OnOffDone(cmd.op, s, TryCommandResult(r)) : r \in Responses}
          \cup {OnOffDone(cmd.op, TryCommandExcept(s), FALSE)}
     ELSE {SetFanMode(s, x) : x \in FanSpeeds}
          \cup {SetSwingMode(s, x) : x \in SwingModes}
          \cup {SetOperationMode(s, x) : x \in OperationModes}
          \cup {SetTemperature(s, x, y) :
                   x \in {None} \cup {Some(v) : v \in Temps},
                   y \in {None} \cup {Some(m) : m \in OperationModes}})

\* C12: a sensor update changes only the current-temperature field and starts
\* no device call; no step of a poll, an on/off command or a setter changes
\* the current-temperature field; and handling a sensor state before or after
\* the next step of the poll or of the command ends in the same entity and the
\* same configuration push.
C12_SensorDisjoint ==
    /\ [][SensorStep =>
             /\ self' = [self EXCEPT !.current_temperature = self'.current_temperature]
             /\ UNCHANGED <<upd, cmd, dev, hist>>]_vars
    /\ [][(upd' # upd \/ cmd' # cmd) =>
             /\ self'.current_temperature = self.current_temperature
             /\ sens' = sens]_vars
    /\ [](\A new_state \in {None} \cup {Some(st) : st \in SensorStates} :
            LET before == SensorChanged(self, new_state, units)
            IN  /\ \A t \in HandlerResults(self) :
                       SensorCommutes(new_state, self, t, before.current_temperature)
                /\ ConfigurationArgs(before) = ConfigurationArgs(self)
                /\ ModelKnown(before) = ModelKnown(self))

\* C12 witness: the sensor's reading is stored on an entity whose poll and whose
\* configuration push both completed with success.
C12_Witness ==
    /\ sens.outcome = "stored"
    /\ self.current_temperature # None
    /\ self.available
    /\ cmd.op \in Setters
    /\ cmd.outcome = "ok"
    /\ upd.outcome = "ok"
    /\ upd.pc = "idle"

\* C13: no handler retries: an invocation of the poll, of turn_on, of turn_off
\* or of a setter makes at most one device call; when that call ends, by an
\* answer or by an exception, the invocation is over without another call,
\* and a new call comes only with a new invocation.
C13_NoRetries ==
    /\ [](cmd.calls <= 1 /\ upd.calls <= 1)
    /\ [][(cmd.pc = "call" /\ cmd' # cmd) =>
             cmd'.pc = "idle" /\ cmd'.calls = cmd.calls]_vars
    /\ [][(upd.pc = "status" /\ upd' # upd) =>
             upd'.pc = "idle" /\ upd'.calls = upd.calls]_vars
    /\ [][(cmd.pc = "idle" /\ cmd'.pc = "call") => cmd'.calls = 1]_vars

\* C13 witness: a poll and a configuration push have both ended by a transport
\* exception, each after its one call.
C13_Witness ==
    /\ upd.pc = "idle" /\ upd.outcome = "exc" /\ upd.calls = 1
    /\ cmd.pc = "idle" /\ cmd.outcome = "exc" /\ cmd.calls = 1
    /\ cmd.op \in Setters

\* ---------------------------------------------------------------- set-up of the platform

\* Before async_setup_platform ran: no entity exists; `self` and `sens` hold
\* what the constructor starts from.
InitSetup ==
    \E u \in TemperatureUnits :
        /\ units = u
        /\ self = InitSelf(None)
        /\ sens = [new_state |-> None, outcome |-> "none"]
        /\ upd = IdleUpd("none", 0)
        /\ cmd = Cmd("none", "idle", "none", 0, 0, None)
        /\ platform = NoPlatform
        /\ dev = NoDevice
        /\ hist = InitHist

\* async_setup_platform with a handshake that ends as `handshake`; the host
\* runs it at start-up and again after PlatformNotReady.  An entity that is
\* added was constructed first (__init__, with its eager read of the sensor).
SetupPlatformRun(handshake) ==
    /\ platform.pc \in {"setup", "not_ready"}
    /\ platform' = SetupPlatform(handshake)
    /\ IF platform'.entities # <<>>
       THEN \E sensor_state \in {None} \cup
                  {Some(SensorState(x, y)) : x \in SensorTexts, y \in TemperatureUnits} :
                /\ self' = SensorChanged(InitSelf(None), sensor_state, units)
                /\ sens' = [new_state |-> sensor_state,
                            outcome |-> IF sensor_state = None THEN "none"
                                        ELSE SensorChangedOutcome(sensor_state, units)]
       ELSE UNCHANGED <<self, sens>>
    /\ UNCHANGED <<units, upd, cmd, dev, hist>>

AsyncSetupPlatformAdd ==
    \E handshake \in {h \in Handshakes : h.exc = None} : SetupPlatformRun(handshake)

AsyncSetupPlatformNotReady ==
    \E handshake \in {h \in Handshakes : h.exc # None} : SetupPlatformRun(handshake)

NextSetup ==
    \/ AsyncSetupPlatformAdd
    \/ AsyncSetupPlatformNotReady

SpecSetup == InitSetup /\ [][NextSetup]_vars

\* C14: a set-up whose handshake failed has raised PlatformNotReady and added
\* no entity; an entity is added only by a set-up whose handshake succeeded,
\* and it is the entity of that handshake's device.
C14_SetupNotReady ==
    /\ platform.handshake = None => platform.entities = <<>> /\ platform.pc = "setup"
    /\ (platform.handshake # None /\ platform.handshake[1].exc # None) =>
          /\ platform.pc = "not_ready"
          /\ platform.raised = Some("PlatformNotReady")
          /\ platform.entities = <<>>
          /\ self = InitSelf(None)
    /\ platform.entities # <<>> =>
          /\ platform.pc = "added"
          /\ platform.handshake # None
          /\ platform.handshake[1].exc = None
          /\ platform.raised = None
          /\ Len(platform.entities) = 1
          /\ platform.entities[1].unique_id =
                Some(UniqueId(platform.handshake[1].info[1]))

\* C14 witness: the handshake raised DeviceException; the set-up has raised
\* PlatformNotReady and there is no entity.
C14_Witness ==
    /\ platform.handshake # None
    /\ platform.handshake[1].exc = Some("DeviceException")
    /\ platform.raised = Some("PlatformNotReady")
    /\ platform.entities = <<>>

\* ---------------------------------------------------------------- raw commands

\* Bound of the model: the longest command text handed to _send_custom_command.
MaxCommandLen == 3

\* Characters of the command texts: enough for the prefixes "01" and "FE" and
\* for texts that share only one character with them.
CommandChars == {"0", "1", "F", "E"}

\* The command texts, the empty one included (tuples of one-character strings).
Commands == UNION { [1..n -> CommandChars] : n \in 0..MaxCommandLen }

\* text[i:j] of Python for 0 <= i <= j: the slice ends where the text ends.
Slice(text, i, j) ==
    SubSeq(text, i + 1, IF j < Len(text) THEN j ELSE Len(text))

\* Mutant of IsNativeCommand: only the first character is compared.
IsNativeCommandFirstChar(command) == Slice(command, 0, 1) = <<"0">>

\* _send_custom_command: `command[0:2] == "01"`
IsNativeCommand(command) == Slice(command, 0, 2) = <<"0", "1">>

\* _send_custom_command: the method of self._device handed to _try_command.
SendCustomCommandFunc(command) ==
    IF IsNativeCommand(command) THEN "send_command" ELSE "send_ir_code"

\* _send_custom_command up to the device call in _try_command
SendCustomCommandCall ==
    \E command \in Commands :
        /\ cmd.pc = "idle"
        /\ cmd' = Cmd(SendCustomCommandFunc(command), "call", "none", 1, 0,
                      Some(command))
        /\ UNCHANGED <<self, units, platform, dev, upd, sens, hist>>

NextRaw ==
    \/ SendCustomCommandCall
    \/ TryCommandReturn
    \/ TryCommandRaise

SpecRaw == Init /\ [][NextRaw]_vars

\* C15: a raw command is handed to exactly one transport method, in one call:
\* to send_command when its first two characters are "0" and "1", to
\* send_ir_code for every other text (shorter than two characters included).
C15_PrefixDispatch ==
    /\ cmd.calls <= 1
    /\ cmd.pc = "call" =>
          /\ cmd.calls = 1
          /\ cmd.args # None
          /\ cmd.op \in {"send_command", "send_ir_code"}
          /\ cmd.op = "send_command" <=>
                /\ Len(cmd.args[1]) >= 2
                /\ cmd.args[1][1] = "0"
                /\ cmd.args[1][2] = "1"

\* C15 witness: a text that begins with "0" but not with "01" is on its way by
\* send_ir_code, after an earlier raw command was answered.
C15_Witness ==
    /\ cmd.pc = "call"
    /\ cmd.op = "send_ir_code"
    /\ cmd.args = Some(<<"0", "F", "E">>)
    /\ hist.last_task = "cmd"

\* The entity s carries the status st in every field a poll caches.
CarriesStatus(s, st) ==
    /\ s.available
    /\ s.state = Some(st.is_on)
    /\ s.current_operation = Some(st.mode)
    /\ s.current_fan_mode = Some(st.fan_speed)
    /\ s.current_swing_mode = Some(st.swing_mode)
    /\ s.target_temperature = Some(st.target_temperature)
    /\ s.state_attrs.load_power = Some(st.load_power)
    /\ s.state_attrs.led = Some(st.led)
    /\ s.state_attrs.ac_model = Some(st.air_condition_model)
    /\ s.state_attrs.temperature = Some(st.target_temperature)
    /\ s.state_attrs.swing_mode = Some(st.swing_mode)
    /\ s.state_attrs.fan_speed = Some(st.fan_speed)
    /\ s.state_attrs.operation_mode = Some(st.mode)

\* C16: the step that completes a successful poll takes the entity, in one
\* step, to an available entity whose on/off flag, operation mode, fan speed,
\* swing mode, target temperature and attributes all carry one reported
\* status; and none of the poll's writes shows before that step: no other step
\* changes the attributes or makes the entity available.
C16_PollReplacesAtomically ==
    /\ [][PollOkStep => \E st \in DeviceStates : CarriesStatus(self', st)]_vars
    /\ [][~PollOkStep =>
             /\ self'.state_attrs = self.state_attrs
             /\ self'.available => self.available]_vars

\* C16 witness: a successful poll has just replaced the fan speed that a setter
\* wrote, while that setter's push is still in flight with the other value.
C16_Witness ==
    /\ hist.last_task = "upd"
    /\ hist.last_ok
    /\ upd.pc = "idle"
    /\ cmd.pc = "call"
    /\ cmd.op = "set_fan_mode"
    /\ Some(cmd.args[1].fan_speed) # self.current_fan_mode
    /\ \E st \in DeviceStates : CarriesStatus(self, st)

\* The four fields a setter writes, by their names in the pushed bundle.
LocalFields == {"operation_mode", "target_temperature", "fan_speed", "swing_mode"}

\* The local value of each of them in the entity s.
Local(s) ==
    [operation_mode |-> s.current_operation,
     target_temperature |-> s.target_temperature,
     fan_speed |-> s.current_fan_mode,
     swing_mode |-> s.current_swing_mode]

\* The fields the setter op writes.
SetterWrites(op) ==
    CASE op = "set_temperature" -> {"target_temperature", "operation_mode"}
      [] op = "set_operation_mode" -> {"operation_mode"}
      [] op = "set_fan_mode" -> {"fan_speed"}
      [] op = "set_swing_mode" -> {"swing_mode"}

\* The field f of the pushed bundle args, as a value that may be None.
BundleField(args, f) ==
    IF f = "target_temperature" THEN args.target_temperature ELSE Some(args[f])

\* A setter runs in this step and issues its push.
PushStep == SetterStep /\ cmd'.pc = "call"

\* C17: the bundle a setter pushes is (latched model, power of the cached
\* on/off flag, local operation mode, local target temperature, local fan
\* mode, local swing mode, LED off): each of the four local fields as the
\* setter left it, the fields the setter does not write as they were when it
\* was called; and the bundle of a push in flight does not change, whatever
\* completes meanwhile.
C17_PushesLocalBundle ==
    /\ [][PushStep =>
             /\ cmd'.args # None
             /\ cmd'.args[1].model = self.air_condition_model
             /\ cmd'.args[1].model # None
             /\ Some(cmd'.args[1].power) = self.state
             /\ cmd'.args[1].led = "0"
             /\ \A f \in LocalFields :
                   /\ BundleField(cmd'.args[1], f) = Local(self')[f]
                   /\ f \notin SetterWrites(cmd'.op) =>
                         BundleField(cmd'.args[1], f) = Local(self)[f]]_vars
    /\ [][(cmd.pc = "call" /\ cmd'.pc = "call") => cmd' = cmd]_vars

\* C17 witness: a set_temperature push is in flight and a successful poll has
\* completed since it was issued, so that the local target temperature is no
\* longer the one of the bundle.
C17_Witness ==
    /\ cmd.pc = "call"
    /\ cmd.op = "set_temperature"
    /\ cmd.args[1].target_temperature # self.target_temperature
    /\ hist.last_task = "upd"
    /\ hist.last_ok

\* A setter pushes in this step, right after the setter of other fields whose
\* push the device refused or which ended by a transport exception, no poll
\* having completed in between.
PushAfterFailedSetterStep ==
    /\ PushStep
    /\ cmd.op \in Setters
    /\ cmd.outcome \in {"nack", "exc"}
    /\ hist.last_task = "cmd"
    /\ SetterWrites(cmd.op) \cap SetterWrites(cmd'.op) = {}

\* C18: a setter leaves the requested value in its local field whether or not
\* it pushes; the end of a push, acknowledged, refused or raised, changes none
\* of the four local fields; a local field changes only in the completing step
\* of a successful poll or in a setter for that field; and a setter that
\* follows a failed setter of other fields pushes the value that one left.
C18_NoRollback ==
    [][/\ (cmd.pc = "idle" /\ cmd'.op = "set_fan_mode") =>
             \A x \in FanSpeeds :
                 SetterCall("set_fan_mode", SetFanMode(self, x)) =>
                     self'.current_fan_mode = Some(x)
       /\ (cmd.pc = "idle" /\ cmd'.op = "set_swing_mode") =>
             \A x \in SwingModes :
                 SetterCall("set_swing_mode", SetSwingMode(self, x)) =>
                     self'.current_swing_mode = Some(x)
       /\ (cmd.pc = "idle" /\ cmd'.op = "set_operation_mode") =>
             \A x \in OperationModes :
                 SetterCall("set_operation_mode", SetOperationMode(self, x)) =>
                     self'.current_operation = Some(x)
       /\ (cmd.pc = "idle" /\ cmd'.op = "set_temperature") =>
             \A x \in {None} \cup {Some(v) : v \in Temps},
                y \in {None} \cup {Some(m) : m \in OperationModes} :
                 SetterCall("set_temperature", SetTemperature(self, x, y)) =>
                     /\ x # None => self'.target_temperature = x
                     /\ y # None => self'.current_operation = y
       /\ CommandEndStep => Local(self') = Local(self)
       /\ Local(self') # Local(self) =>
             \A f \in LocalFields :
                 Local(self')[f] # Local(self)[f] =>
                     \/ PollOkStep
                     \/ SetterStep /\ f \in SetterWrites(cmd'.op)
       /\ PushAfterFailedSetterStep =>
             \A f \in SetterWrites(cmd.op) :
                 BundleField(cmd'.args[1], f) = Local(self)[f]]_vars

\* C18 witness: the device refused the push of set_fan_mode, and the local fan
\* mode is still the requested one, not the one the device last reported.
C18_Witness ==
    /\ cmd.pc = "idle"
    /\ cmd.op = "set_fan_mode"
    /\ cmd.outcome = "nack"
    /\ hist.last_task = "cmd"
    /\ self.current_fan_mode # self.state_attrs.fan_speed
    /\ self.state_attrs.fan_speed # None

\* The keys of the attributes map (ATTR_AIR_CONDITION_MODEL, ATTR_LOAD_POWER,
\* ATTR_TEMPERATURE, ATTR_SWING_MODE, ATTR_FAN_SPEED, ATTR_OPERATION_MODE,
\* ATTR_LED).
AttributeKeys ==
    {"ac_model", "load_power", "temperature", "swing_mode", "fan_speed",
     "operation_mode", "led"}

\* C19: the attributes map always has its seven keys, and it changes only in
\* the completing step of a successful poll: turn_on, turn_off, a setter and
\* the end of its push, a failed poll and a sensor update leave it as it was.
C19_AttributesOnlyByPoll ==
    /\ [](DOMAIN self.state_attrs = AttributeKeys)
    /\ [][self'.state_attrs # self.state_attrs => PollOkStep]_vars
    /\ [][(CommandEndStep \/ SetterStep \/ PollFailedStep \/ SensorStep) =>
             self'.state_attrs = self.state_attrs]_vars

\* C19 witness: the device has acknowledged the push of set_fan_mode, and the
\* map still shows the fan speed of the last poll, not the current fan mode.
C19_Witness ==
    /\ cmd.pc = "idle"
    /\ cmd.op = "set_fan_mode"
    /\ cmd.outcome = "ok"
    /\ hist.last_task = "cmd"
    /\ self.state_attrs.fan_speed # None
    /\ self.state_attrs.fan_speed # self.current_fan_mode

\* ---------------------------------------------------------------- the device, followed

\* device.send_configuration(model, power, operation_mode, target_temperature,
\* fan_speed, swing_mode, led) answered with SUCCESS: the device st has taken
\* every field of the bundle; its load power and its model are its own.
DeviceConfigured(st, args) ==
    [st EXCEPT !.is_on = args.power,
               !.mode = args.operation_mode,
               !.target_temperature = IF args.target_temperature = None
                                      THEN st.target_temperature
                                      ELSE args.target_temperature[1],
               !.fan_speed = args.fan_speed,
               !.swing_mode = args.swing_mode,
               !.led = args.led]

\* The entity after construction, in front of a device in one of DeviceStates
\* that nobody else operates.
InitDevice ==
    \E st \in DeviceStates :
        /\ units = TEMP_CELSIUS
        /\ self = InitSelf(None)
        /\ sens = [new_state |-> None, outcome |-> "none"]
        /\ upd = IdleUpd("none", 0)
        /\ cmd = Cmd("none", "idle", "none", 0, 0, None)
        /\ platform = AddedPlatform
        /\ dev = [state |-> Some(st), snap |-> None]
        /\ hist = InitHist

\* async_update up to the status call; the worker reads the device's status,
\* which waits in `snap` until the event loop resumes the coroutine.
DeviceUpdateCall ==
    /\ upd.pc = "idle"
    /\ upd' = [upd EXCEPT !.pc = "status", !.calls = 1]
    /\ dev' = [dev EXCEPT !.snap = dev.state]
    /\ UNCHANGED <<self, units, platform, cmd, sens, hist>>

\* the status call returned what the worker read
DeviceUpdateReturn ==
    /\ upd.pc = "status"
    /\ self' = UpdateOk(self, dev.snap[1])
    /\ upd' = IdleUpd("ok", upd.calls)
    /\ dev' = [dev EXCEPT !.snap = None]
    /\ hist' = [hist EXCEPT
                  !.polled = TRUE,
                  !.first_model = IF hist.polled THEN hist.first_model
                                  ELSE Some(dev.snap[1].air_condition_model),
                  !.last_task = "upd",
                  !.last_ok = TRUE,
                  !.exc_since = FALSE]
    /\ UNCHANGED <<units, platform, cmd, sens>>

\* the push in flight returned `result`; the device has taken the bundle when
\* it answered with SUCCESS.  `acked` remembers the last acknowledged push.
DeviceCommandReturn ==
    \E result \in Responses :
        /\ cmd.pc = "call"
        /\ self' = OnOffDone(cmd.op, self, TryCommandResult(result))
        /\ cmd' = [cmd EXCEPT !.pc = "idle", !.args = None, !.result = Some(result),
                     !.outcome = IF TryCommandResult(result) THEN "ok" ELSE "nack"]
        /\ dev' = IF result = SUCCESS /\ cmd.args # None
                  THEN [dev EXCEPT !.state =
                                      Some(DeviceConfigured(dev.state[1], cmd.args[1]))]
                  ELSE dev
        /\ hist' = [hist EXCEPT
                      !.last_task = "cmd",
                      !.last_ok = (result = SUCCESS),
                      !.acked = IF result = SUCCESS /\ cmd.args # None
                                THEN Some([op |-> cmd.op, args |-> cmd.args[1]])
                                ELSE None]
        /\ UNCHANGED <<units, platform, upd, sens>>

NextDevice ==
    \/ DeviceUpdateCall
    \/ DeviceUpdateReturn
    \/ AsyncSetSwingMode
    \/ AsyncSetFanMode
    \/ AsyncSetOperationMode
    \/ DeviceCommandReturn

\* Poll and setters as the code lets them run: a status query may be in
\* flight while a setter runs.
SpecDevice == InitDevice /\ [][NextDevice]_vars

\* The same handlers when the host runs them one after the other.
NextSerialized == NextDevice /\ ~(upd'.pc = "status" /\ cmd'.pc = "call")

SpecSerialized == InitDevice /\ [][NextSerialized]_vars

\* The field f of the device status st, as BundleField gives it.
DeviceField(st, f) ==
    Some(CASE f = "operation_mode" -> st.mode
           [] f = "target_temperature" -> st.target_temperature
           [] f = "fan_speed" -> st.fan_speed
           [] f = "swing_mode" -> st.swing_mode)

\* The device acknowledges in this step the push of a setter B, the last
\* command before it being the acknowledged push of a setter A of other
\* fields (only successful polls have completed in between).
SecondAckStep ==
    /\ cmd.pc = "call"
    /\ cmd'.pc = "idle"
    /\ cmd'.outcome = "ok"
    /\ cmd.op \in Setters
    /\ hist.acked # None
    /\ SetterWrites(hist.acked[1].op) \cap SetterWrites(cmd.op) = {}

\* C20: after the acknowledged push of setter A, successful polls, and the
\* acknowledged push of a setter B of other fields, the device still holds for
\* A's fields the values A pushed.
C20_NoRevert ==
    [][SecondAckStep =>
          \A f \in SetterWrites(hist.acked[1].op) :
              DeviceField(dev'.state[1], f) = BundleField(hist.acked[1].args, f)]_vars

\* C20 witness: the device holds the fan speed of the acknowledged push of
\* set_fan_mode, and the entity, with nothing in flight, has just taken from a
\* poll another fan speed: the next setter of another field will push that one.
C20_Witness ==
    /\ cmd.pc = "idle"
    /\ upd.pc = "idle"
    /\ hist.last_task = "upd"
    /\ hist.acked # None
    /\ hist.acked[1].op = "set_fan_mode"
    /\ dev.state[1].fan_speed = hist.acked[1].args.fan_speed
    /\ self.current_fan_mode # Some(dev.state[1].fan_speed)

====
